---- MODULE Spec2Model ----
(***************************************************************************)
(* Helios event system (Source/EventSystem.hpp): a process-wide event bus  *)
(* (std::queue of (std::any, EventType) pairs), a listener registry         *)
(* (std::vector of std::function) and the drain loop EventSystem::Dispatch. *)
(* The program is single threaded; Dispatch is modelled step by step       *)
(* because listeners run inside it and may call back into the event system. *)
(***************************************************************************)
EXTENDS Integers, Sequences, FiniteSets, TLC

(* ------------------------------------------------------------------ *)
(* Bounds of the model                                                  *)
(* ------------------------------------------------------------------ *)
\* total number of AddEvent calls in one run (top level and from listeners)
MaxEvents == 4
\* total number of AddEventListener calls in one run
MaxListeners == 2

(* ------------------------------------------------------------------ *)
(* enum EventType                                                       *)
(* ------------------------------------------------------------------ *)
Type_None == -1
Type_WindowCreate == 0
Type_WindowDestroy == 1
Type_WindowMove == 2
Type_WindowResize == 3
Type_MouseMove == 4
Type_MouseScroll == 5
Type_MouseButtonClick == 6
Type_MouseButtonRelease == 7
Type_KeyPress == 8
Type_KeyRelease == 9
Type_KeyType == 10

\* the classes that carry HELIOS_EVENT_CLASS_TYPE, in declaration order
ConcreteClassSeq ==
    << "WindowCreateEvent", "WindowDestroyEvent", "WindowMoveEvent",
       "WindowResizeEvent", "MouseMoveEvent", "MouseScrollEvent",
       "MouseButtonClickEvent", "MouseButtonReleaseEvent",
       "KeyPressEvent", "KeyReleaseEvent", "KeyTypeEvent" >>

ConcreteClasses == { ConcreteClassSeq[k] : k \in 1..Len(ConcreteClassSeq) }

\* the classes that only inherit IEvent::GetType
BaseClasses ==
    { "IEvent", "WindowEvent", "MouseEvent", "MouseButtonEvent", "KeyEvent" }

\* HELIOS_EVENT_CLASS_TYPE(type): T::GetStaticType()
GetStaticType(class) ==
    CASE class = "WindowCreateEvent"       -> Type_WindowCreate
      [] class = "WindowDestroyEvent"      -> Type_WindowDestroy
      [] class = "WindowMoveEvent"         -> Type_WindowMove
      [] class = "WindowResizeEvent"       -> Type_WindowResize
      [] class = "MouseMoveEvent"          -> Type_MouseMove
      [] class = "MouseScrollEvent"        -> Type_MouseScroll
      [] class = "MouseButtonClickEvent"   -> Type_MouseButtonClick
      [] class = "MouseButtonReleaseEvent" -> Type_MouseButtonRelease
      [] class = "KeyPressEvent"           -> Type_KeyPress
      [] class = "KeyReleaseEvent"         -> Type_KeyRelease
      [] class = "KeyTypeEvent"            -> Type_KeyType

\* virtual GetType(): the override of the macro, or IEvent::GetType
GetType(e) ==
    IF e.class \in ConcreteClasses THEN GetStaticType(e.class) ELSE Type_None

\* the case labels of the switch in Dispatch
SwitchCases ==
    { Type_WindowCreate, Type_WindowDestroy, Type_WindowMove, Type_WindowResize,
      Type_KeyPress, Type_KeyRelease, Type_KeyType, Type_MouseScroll,
      Type_MouseMove, Type_MouseButtonClick, Type_MouseButtonRelease }

(* ------------------------------------------------------------------ *)
(* Event values.  id is the position of the AddEvent call in the run   *)
(* (1, 2, ...); it identifies the enqueued copy.  id 0 marks a value   *)
(* that was never enqueued.                                             *)
(* ------------------------------------------------------------------ *)
Ev(class, payload) == [class |-> class, payload |-> payload, id |-> 0]

\* KeyPressEvent(int key, bool control = false, bool shift = false, bool alt = false)
KeyPressEvent(key) == Ev("KeyPressEvent", <<key, FALSE, FALSE, FALSE>>)

\* MouseButtonClickEvent(int button, bool control = false, ...)
MouseButtonClickEvent(button) ==
    Ev("MouseButtonClickEvent", <<button, FALSE, FALSE, FALSE>>)

\* a value of the interface class itself: is_base_of<IEvent, IEvent> holds
IEventValue == Ev("IEvent", <<>>)

\* the values producers pass to AddEvent in this model
EventInputs == { KeyPressEvent(97), MouseButtonClickEvent(2), IEventValue }

\* what a listener of kind "producer" enqueues
ProducedEvent == KeyPressEvent(98)

\* the behaviours of listener bodies in this model
ListenerKinds == { "plain", "adder", "producer" }

(* ------------------------------------------------------------------ *)
(* State                                                                *)
(* ------------------------------------------------------------------ *)
VARIABLES
    sEventBus,        \* EventSystem::sEventBus: sequence of [value, tag], front first
    sEventListeners,  \* EventSystem::sEventListeners: sequence of listeners
    capacity,         \* sEventListeners.capacity()
    pc,               \* where the single thread is: "idle" (outside Dispatch),
                      \* "test" (loop condition), "iter" (inside the range-for),
                      \* "crashed" (uncaught exception or fault), "trapped" (__debugbreak)
    i,                \* the loop counter of Dispatch
    cur,              \* the value `event` refers to in the running iteration
    it,               \* range-for iterator (index into sEventListeners)
    endIt,            \* range-for end iterator, read once when the loop starts
    invalidated,      \* what a push_back inside the running range-for has
                      \* invalidated: "none", "end" (the past-the-end iterator
                      \* only) or "all" (the vector reallocated)
    fault,            \* why pc is "crashed" ("none" otherwise)
    corrupt,          \* pop() ran on an empty queue: its size has wrapped
    log,              \* every listener invocation so far, in order
    nextId,           \* number of AddEvent calls so far
    lastCall,         \* the last call the host made
    passBus,          \* the bus when the last Dispatch call began
    passLog,          \* Len(log) when the last Dispatch call began
    passRegs,         \* Len(sEventListeners) when the last Dispatch call began
    evRegs,           \* Len(sEventListeners) when the running range-for began
    tsStatics,        \* the function-local statics `oss` and `s` of ToString,
                      \* per class, for the classes whose ToString has run
    tsObjs,           \* the event objects the host has constructed
    tsCalls,          \* every ToString call so far: object, its value, result
    noInitRun         \* TwinSpec only: the run of the same calls without Init
                      \* (capacity of its registry, registrations it has
                      \* made, whether it has ended and the log it ended with)

tsVars == << tsStatics, tsObjs, tsCalls >>

vars == << sEventBus, sEventListeners, capacity, pc, i, cur, it, endIt,
           invalidated, fault, corrupt, log, nextId, lastCall, passBus, passLog,
           passRegs, evRegs, tsStatics, tsObjs, tsCalls, noInitRun >>

(* ------------------------------------------------------------------ *)
(* Pieces of the code                                                   *)
(* ------------------------------------------------------------------ *)
\* a push that stores the interface's tag with every value
BusPushNoTag(bus, e) == Append(bus, [value |-> e, tag |-> Type_None])

\* a push that puts the new entry at the front instead of the tail
BusPushFront(bus, e) == << [value |-> e, tag |-> GetType(e)] >> \o bus

\* AddEvent: sEventBus.push({ e, e.GetType() })
BusPush(bus, e) == Append(bus, [value |-> e, tag |-> GetType(e)])

\* sEventBus.size(); after a pop() on the empty queue the unsigned size is
\* SIZE_MAX, written here as -1 (size() + 1 is then 0, as modulo 2^64)
BusSize(bus, wrapped) == IF wrapped THEN Len(bus) - 1 ELSE Len(bus)

\* the loop condition of Dispatch: i <= sEventBus.size() + 1
LoopCond(k, size) == k <= size + 1

\* the switch of Dispatch reaches a case label (not default)
SwitchHandles(tag) == tag \in SwitchCases

\* capacity after a push_back that finds size() = capacity(): the growth is
\* the library's choice (doubling, or one and a half times)
GrownCapacities(cap) ==
    { IF cap = 0 THEN 1 ELSE 2 * cap,
      IF cap + (cap \div 2) < cap + 1 THEN cap + 1 ELSE cap + (cap \div 2) }

\* Init: sEventListeners.reserve(69)
ReserveHint == 69
Reserve(cap) == IF cap < ReserveHint THEN ReserveHint ELSE cap

\* a dispatcher that forgets the tag comparison
EventDispatcherDispatchAlways(e, V) == << [class |-> V, payload |-> e.payload] >>

\* EventDispatcher(e).Dispatch<V>(func): the calls of func it makes, each
\* with the class the reference is cast to and the payload func then sees
EventDispatcherDispatch(e, V) ==
    IF GetType(e) = GetStaticType(V)
    THEN << [class |-> V, payload |-> e.payload] >>
    ELSE << >>

\* a listener body that tries Dispatch<V> for every concrete V in turn
RECURSIVE Demux(_, _)
Demux(e, k) ==
    IF k > Len(ConcreteClassSeq) THEN << >>
    ELSE EventDispatcherDispatch(e, ConcreteClassSeq[k]) \o Demux(e, k + 1)

\* an iteration that steps over every other listener
NextItSkips(k) == k + 2

\* range-for: the iterator after one step
NextIt(k) == k + 1

\* range-for: it != end
MoreListeners(k, e) == k <= e

\* the class each case label of the switch any_casts the stored value to
SwitchCast(tag) ==
    CASE tag = Type_WindowCreate       -> "WindowCreateEvent"
      [] tag = Type_WindowDestroy      -> "WindowDestroyEvent"
      [] tag = Type_WindowMove         -> "WindowMoveEvent"
      [] tag = Type_WindowResize       -> "WindowResizeEvent"
      [] tag = Type_KeyPress           -> "KeyPressEvent"
      [] tag = Type_KeyRelease         -> "KeyReleaseEvent"
      [] tag = Type_KeyType            -> "KeyTypeEvent"
      [] tag = Type_MouseScroll        -> "MouseScrollEvent"
      [] tag = Type_MouseMove          -> "MouseMoveEvent"
      [] tag = Type_MouseButtonClick   -> "MouseButtonClickEvent"
      [] tag = Type_MouseButtonRelease -> "MouseButtonReleaseEvent"

\* capacity() after push_back on a vector of the given size and capacity
PushBackCapacities(size, cap) ==
    IF size = cap THEN GrownCapacities(cap) ELSE { cap }

\* a pop that also discards the entry behind the front
BusPopTwice(bus) == IF Len(bus) > 1 THEN Tail(Tail(bus)) ELSE Tail(bus)

\* sEventBus.pop() on a non-empty queue
BusPop(bus) == Tail(bus)

\* what front() can yield on an empty queue and still pass any_cast: the
\* bytes of a value that was stored there before (never enqueued: id 0)
GarbageValues == { e \in EventInputs : SwitchHandles(GetType(e)) }

(* ------------------------------------------------------------------ *)
(* Initial state: the two static members, default constructed          *)
(* ------------------------------------------------------------------ *)
Init ==
    /\ sEventBus = << >>
    /\ sEventListeners = << >>
    /\ capacity = 0
    /\ pc = "idle"
    /\ i = 0
    /\ cur = IEventValue
    /\ it = 0
    /\ endIt = 0
    /\ invalidated = "none"
    /\ fault = "none"
    /\ corrupt = FALSE
    /\ log = << >>
    /\ nextId = 0
    /\ lastCall = "none"
    /\ passBus = << >>
    /\ passLog = 0
    /\ passRegs = 0
    /\ evRegs = 0
    /\ tsStatics = << >>
    /\ tsObjs = << >>
    /\ tsCalls = << >>
    /\ noInitRun = [capacity |-> 0, regs |-> 0, ended |-> FALSE, log |-> << >>]

\* the program is outside Dispatch and its containers are intact
Callable == pc = "idle" /\ ~corrupt

(* ------------------------------------------------------------------ *)
(* Public calls made by the host                                        *)
(* ------------------------------------------------------------------ *)
\* EventSystem::Init()
EventSystemInit ==
    /\ Callable
    /\ capacity' = Reserve(capacity)
    /\ lastCall' = "Init"
    /\ UNCHANGED << sEventBus, sEventListeners, pc, i, cur, it, endIt, invalidated,
                    fault, corrupt, log, nextId, passBus, passLog, passRegs, evRegs >>
    /\ UNCHANGED << tsVars, noInitRun >>

\* EventSystem::AddEvent(e)
AddEvent(e) ==
    /\ Callable
    /\ nextId < MaxEvents
    /\ sEventBus' = BusPush(sEventBus, [e EXCEPT !.id = nextId + 1])
    /\ nextId' = nextId + 1
    /\ lastCall' = "AddEvent"
    /\ UNCHANGED << sEventListeners, capacity, pc, i, cur, it, endIt, invalidated,
                    fault, corrupt, log, passBus, passLog, passRegs, evRegs >>
    /\ UNCHANGED << tsVars, noInitRun >>

\* a registration that puts the new listener in front of the others
AddEventListenerFront(kind) ==
    /\ Callable
    /\ Len(sEventListeners) < MaxListeners
    /\ sEventListeners' = << [kind |-> kind] >> \o sEventListeners
    /\ capacity' \in PushBackCapacities(Len(sEventListeners), capacity)
    /\ lastCall' = "AddEventListener"
    /\ UNCHANGED << sEventBus, pc, i, cur, it, endIt, invalidated,
                    fault, corrupt, log, nextId, passBus, passLog, passRegs, evRegs >>
    /\ UNCHANGED << tsVars, noInitRun >>

\* EventSystem::AddEventListener(l), l a callback of the given kind
AddEventListener(kind) ==
    /\ Callable
    /\ Len(sEventListeners) < MaxListeners
    /\ sEventListeners' = Append(sEventListeners, [kind |-> kind])
    /\ capacity' \in PushBackCapacities(Len(sEventListeners), capacity)
    /\ lastCall' = "AddEventListener"
    /\ UNCHANGED << sEventBus, pc, i, cur, it, endIt, invalidated,
                    fault, corrupt, log, nextId, passBus, passLog, passRegs, evRegs >>
    /\ UNCHANGED << tsVars, noInitRun >>

(* ------------------------------------------------------------------ *)
(* EventSystem::Dispatch()                                              *)
(* ------------------------------------------------------------------ *)
\* the call: int i = 0
DispatchCall ==
    /\ Callable
    /\ pc' = "test"
    /\ i' = 0
    /\ passBus' = sEventBus
    /\ passLog' = Len(log)
    /\ passRegs' = Len(sEventListeners)
    /\ lastCall' = "Dispatch"
    /\ UNCHANGED << sEventBus, sEventListeners, capacity, cur, it, endIt,
                    invalidated, fault, corrupt, log, nextId, evRegs >>
    /\ UNCHANGED << tsVars, noInitRun >>

\* the loop condition is false: Dispatch returns
DispatchReturn ==
    /\ pc = "test"
    /\ ~LoopCond(i, BusSize(sEventBus, corrupt))
    /\ pc' = "idle"
    /\ UNCHANGED << sEventBus, sEventListeners, capacity, i, cur, it, endIt,
                    invalidated, fault, corrupt, log, nextId, lastCall, passBus,
                    passLog, passRegs, evRegs >>
    /\ UNCHANGED << tsVars, noInitRun >>

\* a switch whose default only breaks: the entry is popped without a trap
FetchFrontDefaultBreaks ==
    /\ pc = "test"
    /\ LoopCond(i, BusSize(sEventBus, corrupt))
    /\ sEventBus # << >>
    /\ LET event == Head(sEventBus) IN
         IF ~SwitchHandles(event.tag)
         THEN /\ sEventBus' = BusPop(sEventBus)
              /\ i' = i + 1
              /\ UNCHANGED << pc, cur, it, endIt, evRegs, invalidated, fault >>
         ELSE /\ pc' = IF event.value.class # SwitchCast(event.tag)
                       THEN "crashed" ELSE "iter"
              /\ fault' = IF event.value.class # SwitchCast(event.tag)
                          THEN "bad_any_cast" ELSE fault
              /\ cur' = event.value
              /\ it' = 1
              /\ endIt' = Len(sEventListeners)
              /\ evRegs' = Len(sEventListeners)
              /\ invalidated' = "none"
              /\ UNCHANGED << sEventBus, i >>
    /\ UNCHANGED << sEventListeners, capacity, corrupt, log,
                    nextId, lastCall, passBus, passLog, passRegs >>
    /\ UNCHANGED << tsVars, noInitRun >>

\* the loop condition is true and the queue has a front: the switch
FetchFront ==
    /\ pc = "test"
    /\ LoopCond(i, BusSize(sEventBus, corrupt))
    /\ sEventBus # << >>
    /\ LET event == Head(sEventBus) IN
         IF ~SwitchHandles(event.tag)
         THEN \* default: __debugbreak()
              /\ pc' = "trapped"
              /\ UNCHANGED << cur, it, endIt, evRegs, invalidated, fault >>
         ELSE IF event.value.class # SwitchCast(event.tag)
         THEN \* std::bad_any_cast, never caught
              /\ pc' = "crashed"
              /\ fault' = "bad_any_cast"
              /\ UNCHANGED << cur, it, endIt, evRegs, invalidated >>
         ELSE \* IterateThroughEventListeners: begin() and end() are read
              /\ pc' = "iter"
              /\ cur' = event.value
              /\ it' = 1
              /\ endIt' = Len(sEventListeners)
              /\ evRegs' = Len(sEventListeners)
              /\ invalidated' = "none"
              /\ UNCHANGED fault
    /\ UNCHANGED << sEventBus, sEventListeners, capacity, i, corrupt, log,
                    nextId, lastCall, passBus, passLog, passRegs >>
    /\ UNCHANGED << tsVars, noInitRun >>

\* the loop condition is true and the queue is empty: front() is undefined.
\* The bytes read are not an entry: the cast throws or faults, or the tag
\* falls to default, or stale bytes pass for a value that was never enqueued
FetchFrontEmpty ==
    /\ pc = "test"
    /\ LoopCond(i, BusSize(sEventBus, corrupt))
    /\ sEventBus = << >>
    /\ \/ /\ pc' = "crashed"
          /\ fault' = "empty_front"
          /\ UNCHANGED << cur, it, endIt, evRegs, invalidated >>
       \/ /\ pc' = "trapped"
          /\ UNCHANGED << cur, it, endIt, evRegs, invalidated, fault >>
       \/ /\ pc' = "iter"
          /\ cur' \in GarbageValues
          /\ it' = 1
          /\ endIt' = Len(sEventListeners)
          /\ evRegs' = Len(sEventListeners)
          /\ invalidated' = "none"
          /\ UNCHANGED fault
    /\ UNCHANGED << sEventBus, sEventListeners, capacity, i, corrupt, log,
                    nextId, lastCall, passBus, passLog, passRegs >>
    /\ UNCHANGED << tsVars, noInitRun >>

\* one step of the range-for: it != end holds; listener(e) runs on a copy
\* of *it; ++it.  The body records the call, tries EventDispatcher for every
\* class, and then, by its kind, registers a listener or enqueues an event.
\* A push_back made by an earlier body of this range-for invalidated the
\* cached end iterator, and `it` too if the vector reallocated: a library
\* that checks iterators aborts at the comparison, the copy from freed
\* storage faults or throws bad_function_call, or the old bytes are intact
InvokeListener ==
    /\ pc = "iter"
    /\ MoreListeners(it, endIt)
    /\ \/ /\ invalidated # "none"
          /\ pc' = "crashed"
          /\ fault' = IF invalidated = "all" THEN "iterator_realloc"
                                             ELSE "iterator_end"
          /\ UNCHANGED << sEventBus, sEventListeners, capacity, it,
                          invalidated, log, nextId >>
       \/ LET listener == sEventListeners[it] IN
          /\ log' = Append(log, [l |-> it, e |-> cur, regs |-> evRegs,
                                 h |-> Demux(cur, 1)])
          /\ it' = NextIt(it)
          /\ UNCHANGED << pc, fault >>
          /\ IF listener.kind = "adder" /\ Len(sEventListeners) < MaxListeners
             THEN /\ sEventListeners' = Append(sEventListeners, [kind |-> "plain"])
                  /\ capacity' \in PushBackCapacities(Len(sEventListeners), capacity)
                  /\ invalidated' =
                       IF invalidated = "all" \/ Len(sEventListeners) = capacity
                       THEN "all" ELSE "end"
                  /\ UNCHANGED << sEventBus, nextId >>
             ELSE IF listener.kind = "producer" /\ nextId < MaxEvents
             THEN /\ sEventBus' =
                       BusPush(sEventBus, [ProducedEvent EXCEPT !.id = nextId + 1])
                  /\ nextId' = nextId + 1
                  /\ UNCHANGED << sEventListeners, capacity, invalidated >>
             ELSE UNCHANGED << sEventBus, sEventListeners, capacity,
                               invalidated, nextId >>
    /\ UNCHANGED << i, cur, endIt, corrupt, lastCall, passBus, passLog, passRegs,
                    evRegs >>
    /\ UNCHANGED << tsVars, noInitRun >>

\* it != end fails: the range-for is over; sEventBus.pop(); i++.
\* With an invalidated end iterator a checking library aborts here.
\* pop() on an empty queue is undefined: it aborts or faults, or moves the
\* front cursor past the back one, which leaves size() at SIZE_MAX
FinishEvent ==
    /\ pc = "iter"
    /\ ~MoreListeners(it, endIt)
    /\ \/ /\ invalidated # "none"
          /\ pc' = "crashed"
          /\ fault' = IF invalidated = "all" THEN "iterator_realloc"
                                             ELSE "iterator_end"
          /\ UNCHANGED << sEventBus, i, corrupt >>
       \/ /\ sEventBus # << >>
          /\ sEventBus' = BusPop(sEventBus)
          /\ i' = i + 1
          /\ pc' = "test"
          /\ UNCHANGED << corrupt, fault >>
       \/ /\ sEventBus = << >>
          /\ \/ /\ pc' = "crashed"
                /\ fault' = "empty_pop"
                /\ UNCHANGED << i, corrupt >>
             \/ /\ pc' = "test"
                /\ i' = i + 1
                /\ corrupt' = TRUE
                /\ UNCHANGED fault
          /\ UNCHANGED sEventBus
    /\ UNCHANGED << sEventListeners, capacity, cur, it, endIt, invalidated,
                    log, nextId, lastCall, passBus, passLog, passRegs, evRegs >>
    /\ UNCHANGED << tsVars, noInitRun >>

Next ==
    \/ EventSystemInit
    \/ \E e \in EventInputs : AddEvent(e)
    \/ \E kind \in ListenerKinds : AddEventListener(kind)
    \/ DispatchCall
    \/ DispatchReturn
    \/ FetchFront
    \/ FetchFrontEmpty
    \/ InvokeListener
    \/ FinishEvent

Spec == Init /\ [][Next]_vars

(* ------------------------------------------------------------------ *)
(* The host of Examples/main.cpp, generalised: it enqueues its events,  *)
(* then registers its listeners, then only calls Dispatch.  Every       *)
(* event the host enqueues is older than every listener.                *)
(* ------------------------------------------------------------------ *)
MainInit == lastCall # "Dispatch" /\ EventSystemInit

MainAddEvent(e) ==
    /\ lastCall # "Dispatch"
    /\ sEventListeners = << >>
    /\ AddEvent(e)

MainAddEventListener(kind) == lastCall # "Dispatch" /\ AddEventListener(kind)

MainNext ==
    \/ MainInit
    \/ \E e \in EventInputs : MainAddEvent(e)
    \/ \E kind \in ListenerKinds : MainAddEventListener(kind)
    \/ DispatchCall
    \/ DispatchReturn
    \/ FetchFront
    \/ FetchFrontEmpty
    \/ InvokeListener
    \/ FinishEvent

MainSpec == Init /\ [][MainNext]_vars

(* ------------------------------------------------------------------ *)
(* A host that calls Init before any other call                         *)
(* ------------------------------------------------------------------ *)
InitFirstNext ==
    \/ (lastCall = "none" /\ EventSystemInit)
    \/ (lastCall # "none" /\ Next)

InitFirstSpec == Init /\ [][InitFirstNext]_vars

(* ------------------------------------------------------------------ *)
(* ToString.  A text is a sequence of one-character or longer pieces;  *)
(* operator<< appends the pieces of its operand to the stream.          *)
(* ------------------------------------------------------------------ *)
\* the most ToString calls and constructed event objects in one run
MaxToStringCalls == 3
MaxObjects == 2

\* WindowCreateEvent(int showMode)
WindowCreateEvent(showMode) == Ev("WindowCreateEvent", <<showMode>>)

\* KeyTypeEvent(char c)
KeyTypeEvent(c) == Ev("KeyTypeEvent", <<c>>)

\* the event objects the host constructs and describes in this model
ToStringInputs ==
    { KeyPressEvent(97), KeyPressEvent(98), MouseButtonClickEvent(2),
      WindowCreateEvent(1), KeyTypeEvent("x") }

DigitChars == << "0", "1", "2", "3", "4", "5", "6", "7", "8", "9" >>

\* the decimal digits of a natural number, most significant first
RECURSIVE Digits(_)
Digits(n) ==
    IF n < 10 THEN << DigitChars[n + 1] >>
    ELSE Digits(n \div 10) \o << DigitChars[(n % 10) + 1] >>

\* oss << int
FmtInt(n) == IF n < 0 THEN << "-" >> \o Digits(0 - n) ELSE Digits(n)

\* oss << bool (no boolalpha)
FmtBool(b) == IF b THEN << "1" >> ELSE << "0" >>

\* oss << char
FmtChar(c) == << c >>

\* the shared tail of the button and key events' descriptions
FmtModifiers(p) ==
    << "), Control: (" >> \o FmtBool(p[2]) \o << "), Shift: (" >>
    \o FmtBool(p[3]) \o << "), Alt: (" >> \o FmtBool(p[4]) \o << ")\n" >>

\* what the statement `oss << ...` of e's ToString appends to the stream
Formatted(e) ==
    LET p == e.payload IN
    CASE e.class = "WindowCreateEvent" ->
           << "[Event:WindowCreate]: ShowMode: (" >> \o FmtInt(p[1]) \o << ")\n" >>
      [] e.class = "WindowDestroyEvent" ->
           << "[Event:WindowDestroy]\n" >>
      [] e.class = "WindowMoveEvent" ->
           << "[Event:WindowMove]: XPos: (" >> \o FmtInt(p[1])
           \o << "), YPos: (" >> \o FmtInt(p[2]) \o << ")\n" >>
      [] e.class = "WindowResizeEvent" ->
           << "[Event:WindowResize]: Width: (" >> \o FmtInt(p[1])
           \o << "), Height: (" >> \o FmtInt(p[2]) \o << ")\n" >>
      [] e.class = "MouseMoveEvent" ->
           << "[Event:MouseMove]: XPos: (" >> \o FmtInt(p[1])
           \o << "), YPos: (" >> \o FmtInt(p[2]) \o << ")\n" >>
      [] e.class = "MouseScrollEvent" ->
           << "[Event:MouseScroll]: Offset: (" >> \o FmtInt(p[1]) \o << ")\n" >>
      [] e.class = "MouseButtonClickEvent" ->
           << "[Event:MouseButtonClick]: Button: (" >> \o FmtInt(p[1])
           \o FmtModifiers(p)
      [] e.class = "MouseButtonReleaseEvent" ->
           << "[Event:MouseButtonRelease]: Button: (" >> \o FmtInt(p[1])
           \o FmtModifiers(p)
      [] e.class = "KeyPressEvent" ->
           << "[Event:KeyPress]: Key: (" >> \o FmtInt(p[1]) \o FmtModifiers(p)
      [] e.class = "KeyReleaseEvent" ->
           << "[Event:KeyRelease]: Key: (" >> \o FmtInt(p[1]) \o FmtModifiers(p)
      [] e.class = "KeyTypeEvent" ->
           << "[Event:KeyType]: Char: (" >> \o FmtChar(p[1]) \o << ")\n" >>

\* a ToString whose `s` is not static: it returns the stream's content
EventToStringStream(e, statics) ==
    LET known == e.class \in DOMAIN statics
        oss   == (IF known THEN statics[e.class].oss ELSE << >>) \o Formatted(e)
    IN  [ statics |-> (e.class :> [oss |-> oss, s |-> oss]) @@ statics,
          out     |-> oss ]

\* e.ToString() of a concrete class (the name ToString is taken by the
\* TLC module): the class's static stream `oss` is
\* constructed empty by the first call and appended to by every call; the
\* static string `s` is initialised by the first call, with the stream's
\* content at that moment, and returned by reference by every call
EventToString(e, statics) ==
    LET known == e.class \in DOMAIN statics
        oss   == (IF known THEN statics[e.class].oss ELSE << >>) \o Formatted(e)
        s     == IF known THEN statics[e.class].s ELSE oss
    IN  [ statics |-> (e.class :> [oss |-> oss, s |-> s]) @@ statics,
          out     |-> s ]

\* the host constructs an event object
Construct(e) ==
    /\ Len(tsObjs) < MaxObjects
    /\ tsObjs' = Append(tsObjs, e)
    /\ UNCHANGED << tsStatics, tsCalls, noInitRun >>
    /\ UNCHANGED << sEventBus, sEventListeners, capacity, pc, i, cur, it, endIt,
                    invalidated, fault, corrupt, log, nextId, lastCall, passBus,
                    passLog, passRegs, evRegs >>

\* the host calls ToString on its k-th object (a const member function)
ToStringCall(k) ==
    /\ k <= Len(tsObjs)
    /\ Len(tsCalls) < MaxToStringCalls
    /\ LET r == EventToString(tsObjs[k], tsStatics) IN
         /\ tsStatics' = r.statics
         /\ tsCalls' = Append(tsCalls, [obj |-> k, e |-> tsObjs[k], out |-> r.out])
    /\ UNCHANGED << tsObjs, noInitRun >>
    /\ UNCHANGED << sEventBus, sEventListeners, capacity, pc, i, cur, it, endIt,
                    invalidated, fault, corrupt, log, nextId, lastCall, passBus,
                    passLog, passRegs, evRegs >>

ToStringNext ==
    \/ \E e \in ToStringInputs : Construct(e)
    \/ \E k \in 1..MaxObjects : ToStringCall(k)

ToStringSpec == Init /\ [][ToStringNext]_vars

(* ------------------------------------------------------------------ *)
(* A pass that has started keeps running: the single thread takes the  *)
(* next step of Dispatch whenever there is one                          *)
(* ------------------------------------------------------------------ *)
PassStep ==
    \/ DispatchReturn
    \/ FetchFront
    \/ FetchFrontEmpty
    \/ InvokeListener
    \/ FinishEvent

FairSpec == Spec /\ WF_vars(PassStep)

(* ------------------------------------------------------------------ *)
(* Two runs of one sequence of calls on one build.  The run of the      *)
(* variables above calls Init first, once.  noInitRun is the run of the *)
(* same calls without Init: until it ends it is in the same state but   *)
(* for the capacity of its registry, so only that is kept.              *)
(* ------------------------------------------------------------------ *)
\* the run without Init has made every registration this run has made
NoInitSynced ==
    noInitRun.ended \/ noInitRun.regs = Len(sEventListeners)

\* this library's iterators survive a push_back that does not reallocate:
\* the range-for goes on with the end iterator it cached
LibraryKeepsEnd == fault' # "iterator_end"

\* the run without Init makes the registration this run has just made:
\* sEventListeners.push_back(listener) with its own capacity.  If the
\* vector is full it reallocates, and if that happens inside the range-for
\* of IterateThroughEventListeners the loop's iterators point into freed
\* storage.  Using them is undefined: a library that checks iterators
\* aborts the process at the ++ that follows the listener's body
\* (libstdc++ with _GLIBCXX_DEBUG), or the next copy of *it faults, and
\* the run ends with the invocations made so far; or the old bytes serve
\* and the run goes on as the run with Init does (unchecked builds)
NoInitPushBack ==
    /\ ~noInitRun.ended
    /\ noInitRun.regs < Len(sEventListeners)
    /\ \E c \in PushBackCapacities(noInitRun.regs, noInitRun.capacity) :
       \E aborts \in IF noInitRun.regs = noInitRun.capacity /\ pc = "iter"
                     THEN BOOLEAN ELSE { FALSE } :
          noInitRun' = [capacity |-> c,
                        regs     |-> noInitRun.regs + 1,
                        ended    |-> aborts,
                        log      |-> IF aborts THEN log ELSE << >>]
    /\ UNCHANGED << sEventBus, sEventListeners, capacity, pc, i, cur, it, endIt,
                    invalidated, fault, corrupt, log, nextId, lastCall, passBus,
                    passLog, passRegs, evRegs, tsVars >>

\* the run that calls Init: Init is its first call and is called once;
\* every other call and every step of Dispatch waits for the run without
\* Init to have made the same registrations
TwinInit == lastCall = "none" /\ EventSystemInit

TwinGuard == lastCall # "none" /\ NoInitSynced

TwinAddEvent(e) == TwinGuard /\ AddEvent(e)

TwinAddEventListener(kind) == TwinGuard /\ AddEventListener(kind)

TwinDispatchCall == TwinGuard /\ DispatchCall

TwinDispatchReturn == TwinGuard /\ DispatchReturn

TwinFetchFront == TwinGuard /\ FetchFront

TwinFetchFrontEmpty == TwinGuard /\ FetchFrontEmpty

TwinInvokeListener == TwinGuard /\ InvokeListener /\ LibraryKeepsEnd

TwinFinishEvent == TwinGuard /\ FinishEvent /\ LibraryKeepsEnd

TwinNext ==
    \/ TwinInit
    \/ \E e \in EventInputs : TwinAddEvent(e)
    \/ \E kind \in ListenerKinds : TwinAddEventListener(kind)
    \/ TwinDispatchCall
    \/ TwinDispatchReturn
    \/ TwinFetchFront
    \/ TwinFetchFrontEmpty
    \/ TwinInvokeListener
    \/ TwinFinishEvent
    \/ NoInitPushBack

TwinSpec == Init /\ [][TwinNext]_vars

TypeOK ==
    /\ pc \in { "idle", "test", "iter", "crashed", "trapped" }
    /\ Len(sEventBus) <= MaxEvents
    /\ Len(sEventListeners) <= MaxListeners
    /\ nextId \in 0..MaxEvents
    /\ corrupt \in BOOLEAN
    /\ invalidated \in { "none", "end", "all" }
    /\ (pc = "crashed") = (fault # "none")

(* ------------------------------------------------------------------ *)
(* Vocabulary of the properties                                         *)
(* ------------------------------------------------------------------ *)
\* the last Dispatch call has returned and the host made no call since
Returned == pc = "idle" /\ lastCall = "Dispatch"

\* the listener invocations made since the last Dispatch call began
PassEntries == SubSeq(log, passLog + 1, Len(log))

\* the ids of the events a sequence of invocations handed to listener l
RECURSIVE IdsFor(_, _)
IdsFor(entries, l) ==
    IF entries = << >> THEN << >>
    ELSE (IF Head(entries).l = l THEN << Head(entries).e.id >> ELSE << >>)
         \o IdsFor(Tail(entries), l)

\* the ids of the entries of a bus, front first
BusIds(bus) == [ k \in 1..Len(bus) |-> bus[k].value.id ]

\* no registered listener enqueues events
NoProducer == \A k \in 1..Len(sEventListeners) : sEventListeners[k].kind # "producer"

(* ------------------------------------------------------------------ *)
(* Properties                                                           *)
(* ------------------------------------------------------------------ *)
\* C1: starting from an empty bus, after N AddEvent calls followed by one
\* Dispatch call, every registered listener has been invoked exactly N
\* times, once per enqueued event, in the order the events were enqueued.
\* Stated for the calls that return without having popped an empty bus, so
\* that a violation is a run whose every step is defined behaviour.
C1_EveryEventDeliveredInOrder ==
    (Returned /\ ~corrupt /\ Len(passBus) = nextId)
        => \A l \in 1..passRegs :
              /\ IdsFor(PassEntries, l) = BusIds(passBus)
              /\ Len(IdsFor(PassEntries, l)) = nextId

\* C2: when a Dispatch call returns the bus is empty, whatever its size
\* when the call began, given listeners that do not enqueue events.
C2_BusEmptyAfterDispatch ==
    (Returned /\ ~corrupt /\ NoProducer) => sEventBus = << >>

\* C3: draining stops exactly when the bus becomes empty: the loop goes on
\* (reads the front entry and pops it) only while the bus is non-empty, and
\* never reads or pops an empty bus.
C3_LoopRunsOnlyOnNonEmptyBus ==
    /\ (pc = "test" /\ LoopCond(i, BusSize(sEventBus, corrupt)))
           => sEventBus # << >>
    /\ ~corrupt

\* C4: Dispatch on an empty bus is a no-op: no listener is invoked, nothing
\* traps or crashes, and the bus (still empty) and the registry are as before.
C4_DispatchOnEmptyBusIsNoOp ==
    (lastCall = "Dispatch" /\ passBus = << >>)
        => /\ pc \notin { "crashed", "trapped" }
           /\ Len(log) = passLog
           /\ sEventBus = << >>
           /\ ~corrupt
           /\ Len(sEventListeners) = passRegs

\* C5: for every event processed by Dispatch the registered listeners are
\* invoked in registration order, each exactly once for that event, and all
\* invocations for one event complete before any invocation for the next.
\* The log is a sequence of blocks, one per processed event: a block runs
\* through listeners 1, 2, ... for one event, and a block that is followed by
\* another, or whose range-for has ended, reaches the last listener that
\* was registered when the block began.  The log only grows at its end, so
\* the property is stated of its newest entry and the one before.
C5_ListenersInRegistrationOrder ==
    LET n == Len(log) IN
    /\ n > 0 =>
          /\ \/ log[n].l = 1
             \/ /\ n > 1
                /\ log[n - 1].l = log[n].l - 1
                /\ log[n - 1].e = log[n].e
                /\ log[n - 1].regs = log[n].regs
          /\ log[n].l <= log[n].regs
          /\ (n > 1 /\ log[n].l = 1) => log[n - 1].l = log[n - 1].regs
    /\ (pc \in { "test", "idle", "trapped" } /\ n > 0)
          => log[n].l = log[n].regs
    /\ (pc = "test" /\ evRegs > 0)
          => (n > 0 /\ log[n].e = cur /\ log[n].regs = evRegs)

\* C5 witness: two listeners have each received two events, the first
\* listener before the second for both
C5_Witness ==
    /\ Returned
    /\ Len(PassEntries) = 4
    /\ PassEntries[1].l = 1 /\ PassEntries[2].l = 2
    /\ PassEntries[3].l = 1 /\ PassEntries[4].l = 2
    /\ PassEntries[1].e.id = 1 /\ PassEntries[3].e.id = 2

\* C6: a listener registered from inside another listener while a Dispatch
\* call is running is not invoked for any event processed during that same
\* call: every invocation of the pass that hands over an enqueued event
\* goes to a listener that was registered when the call began.
C6_ListenerAddedInPassWaits ==
    lastCall = "Dispatch"
        => \A p \in 1..Len(PassEntries) :
              PassEntries[p].e.id # 0 => PassEntries[p].l <= passRegs

\* C7: EventDispatcher(e).Dispatch<V>(h) invokes h if and only if e is a V
\* (its dynamic tag is V's static tag); on a match h runs exactly once and
\* sees e's own payload; on a mismatch h does not run; and e is not
\* modified: the next listener is handed the same value, the one that was
\* enqueued.  Stated of the newest invocation in the log, which only grows.
C7_HandlerRunsIffTagsMatch ==
    LET n == Len(log) IN
    n > 0 =>
       /\ \A V \in ConcreteClasses :
             (\E q \in 1..Len(log[n].h) : log[n].h[q].class = V)
                 <=> (log[n].e.class = V)
       /\ Len(log[n].h) = 1
       /\ log[n].h[1].payload = log[n].e.payload
       /\ (n > 1 /\ log[n].e.id # 0 /\ log[n - 1].e.id = log[n].e.id)
             => log[n - 1].e = log[n].e
       /\ (pc = "iter" /\ it > 1 /\ cur.id # 0)
             => (log[n].e = cur /\ sEventBus # << >> /\ Head(sEventBus).value = cur)

\* C7 witness: a listener was fed a KeyPress event and its KeyPress handler
\* saw key 97, and was fed a MouseButtonClick event and its KeyPress
\* handler did not run
C7_Witness ==
    \E p, q \in 1..Len(log) :
        /\ log[p].e.class = "KeyPressEvent"
        /\ log[p].h = << [class |-> "KeyPressEvent",
                          payload |-> << 97, FALSE, FALSE, FALSE >>] >>
        /\ log[q].e.class = "MouseButtonClickEvent"
        /\ \A k \in 1..Len(log[q].h) : log[q].h[k].class # "KeyPressEvent"

\* the tag at the front of the bus is none of the eleven concrete tags
FrontTagUnknown ==
    /\ sEventBus # << >>
    /\ Head(sEventBus).tag \notin { GetStaticType(V) : V \in ConcreteClasses }

\* C8: when Dispatch dequeues an entry whose tag is none of the eleven
\* concrete tags, the pass stops in the trap: the entry is not dropped, no
\* listener is invoked for it, and nothing is processed afterwards (no
\* step leaves the trap).
C8_UnknownTagTraps ==
    [][ /\ pc # "trapped"
        /\ (pc = "test" /\ LoopCond(i, BusSize(sEventBus, corrupt)) /\ FrontTagUnknown)
              => (pc' = "trapped" /\ sEventBus' = sEventBus /\ log' = log)
        /\ (Len(sEventBus') < Len(sEventBus)) => ~FrontTagUnknown
        /\ (Len(log') > Len(log))
              => log'[Len(log')].e.class \in ConcreteClasses ]_vars

\* C8 witness: the pass is in the trap on an IEvent entry, with a listener
\* registered and a later entry still queued behind it
C8_Witness ==
    /\ pc = "trapped"
    /\ Len(sEventBus) >= 2
    /\ Head(sEventBus).tag = Type_None
    /\ Head(sEventBus).value.class = "IEvent"
    /\ sEventListeners # << >>
    /\ Len(log) = passLog

\* the ids first..last in ascending order
IdRange(first, last) == [ k \in 1..(last - first + 1) |-> first + k - 1 ]

\* C9 (under MainSpec, where the host's events are all older than the
\* listeners): a listener receives every event dispatched after its
\* registration, whenever the event was enqueued: when a Dispatch call
\* returns, each listener registered at the call has been handed, in order,
\* every event the call took off the bus; and for two events enqueued
\* before the listeners, the call delivers the first, then the second, and
\* leaves the bus empty.
C9_ListenerGetsEventsEnqueuedBefore ==
    (Returned /\ ~corrupt /\ passBus # << >>
       /\ \A p \in 1..Len(PassEntries) : PassEntries[p].e.id # 0)
    => /\ \A l \in 1..passRegs :
             IdsFor(PassEntries, l) =
                 IdRange(passBus[1].value.id,
                         IF sEventBus = << >> THEN nextId
                         ELSE sEventBus[1].value.id - 1)
       /\ (Len(passBus) = 2 /\ NoProducer)
             => /\ sEventBus = << >>
                /\ \A l \in 1..passRegs : IdsFor(PassEntries, l) = BusIds(passBus)

\* C9 witness: the run of main.cpp: KeyPress(97) and MouseButtonClick(2)
\* were enqueued, then one listener was registered, and one Dispatch call
\* handed it both, in that order, and emptied the bus
C9_Witness ==
    /\ Returned
    /\ Len(passBus) = 2
    /\ passBus[1].value = [KeyPressEvent(97) EXCEPT !.id = 1]
    /\ passBus[2].value = [MouseButtonClickEvent(2) EXCEPT !.id = 2]
    /\ Len(sEventListeners) = 1
    /\ sEventListeners[1].kind = "plain"
    /\ Len(log) = 2
    /\ log[1].e = passBus[1].value
    /\ log[2].e = passBus[2].value
    /\ sEventBus = << >>

\* C10: AddEvent always succeeds and appends exactly one entry, a copy of
\* its argument paired with the argument's type tag, at the tail of the
\* bus; the entries already there, their order and the registry are
\* unchanged, and the call invokes no listener.
C10_AddEventAppendsOneEntry ==
    [][ (nextId' # nextId) =>
          /\ nextId' = nextId + 1
          /\ Len(sEventBus') = Len(sEventBus) + 1
          /\ SubSeq(sEventBus', 1, Len(sEventBus)) = sEventBus
          /\ LET new == sEventBus'[Len(sEventBus')] IN
                /\ \E e \in EventInputs \cup { ProducedEvent } :
                      new.value = [e EXCEPT !.id = nextId']
                /\ new.tag = IF new.value.class \in ConcreteClasses
                             THEN GetStaticType(new.value.class) ELSE Type_None
          /\ sEventListeners' = sEventListeners
          /\ capacity' = capacity
          /\ pc' = pc /\ fault' = fault /\ corrupt' = corrupt
          /\ (pc = "idle") => (log' = log) ]_vars

\* C10 witness: the host's last call was AddEvent, on a bus that already
\* held an entry, with a listener registered
C10_Witness ==
    /\ pc = "idle"
    /\ lastCall = "AddEvent"
    /\ Len(sEventBus) >= 2
    /\ sEventBus[Len(sEventBus)].value.id = nextId
    /\ sEventListeners # << >>

\* C11: the registry is append-only: every step keeps the listeners that
\* were registered, in their order; a step that changes the registry adds
\* exactly one listener at the tail; and an AddEventListener call made by
\* the host leaves the bus unchanged and invokes no listener.
C11_RegistryAppendOnly ==
    [][ /\ Len(sEventListeners') >= Len(sEventListeners)
        /\ SubSeq(sEventListeners', 1, Len(sEventListeners)) = sEventListeners
        /\ (sEventListeners' # sEventListeners)
              => Len(sEventListeners') = Len(sEventListeners) + 1
        /\ (pc = "idle" /\ sEventListeners' # sEventListeners)
              => (sEventBus' = sEventBus /\ log' = log /\ pc' = "idle") ]_vars

\* C11 witness: after a Dispatch call that invoked a listener, the host
\* registered a second listener of another kind behind the first, with an
\* event waiting on the bus
C11_Witness ==
    /\ pc = "idle"
    /\ lastCall = "AddEventListener"
    /\ Len(sEventListeners) = 2
    /\ sEventListeners[1].kind # sEventListeners[2].kind
    /\ Len(log) > 0
    /\ sEventBus # << >>

\* under InitFirstSpec and TwinSpec: the reserve of Init is never used up, so no
\* push_back reallocates the registry and no iterator into it goes stale
InitFirst_NoReallocation ==
    /\ invalidated # "all"
    /\ fault # "iterator_realloc"
    /\ (lastCall # "none")
          => (capacity >= ReserveHint /\ Len(sEventListeners) < capacity)

\* C12 (under TwinSpec): Init has no observable effect: the run that
\* called Init and the run of the same calls without Init invoke the same
\* listeners with the same events, also when listeners register listeners
\* during a pass.  When the run without Init has ended, the run with Init
\* has therefore made exactly the invocations the other had made.  Stated
\* for runs in which every delivered value was an enqueued one, so that a
\* violation does not pass through a read of the empty bus.
C12_InitHasNoObservableEffect ==
    (noInitRun.ended /\ \A p \in 1..Len(log) : log[p].e.id # 0)
        => log = noInitRun.log

\* C13: ToString returns a description naming the event's own variant and
\* carrying its own payload values, whatever ToString calls were made
\* before on other events (of the same variant with another payload
\* included): the result of every call is the description of its event.
\* The calls are recorded in order, so it is stated of the newest.
C13_ToStringDescribesItsEvent ==
    LET n == Len(tsCalls) IN
    n > 0 => tsCalls[n].out = Formatted(tsCalls[n].e)

\* C14: ToString is pure and deterministic: calls on the same unmodified
\* event, and on events of equal value, return identical output, and a
\* call changes neither the payload nor the type tag of its event (the
\* object still holds the value it held when the call was made).
C14_ToStringDeterministic ==
    \A p, q \in 1..Len(tsCalls) :
        /\ (tsCalls[p].obj = tsCalls[q].obj \/ tsCalls[p].e = tsCalls[q].e)
              => tsCalls[p].out = tsCalls[q].out
        /\ tsObjs[tsCalls[p].obj] = tsCalls[p].e
        /\ GetType(tsObjs[tsCalls[p].obj]) = GetType(tsCalls[p].e)

\* C14 witness: ToString was called on an event, then on another event of
\* the same class with another payload, then on the first event again
C14_Witness ==
    /\ Len(tsCalls) = 3
    /\ tsCalls[1].obj = tsCalls[3].obj
    /\ tsCalls[2].obj # tsCalls[1].obj
    /\ tsCalls[2].e.class = tsCalls[1].e.class
    /\ tsCalls[2].e.payload # tsCalls[1].e.payload
    /\ tsCalls[1].out = Formatted(tsCalls[1].e)

\* C15: in every reachable state each bus entry's stored tag is the type
\* tag of the value stored beside it, and recovering the value by that tag
\* (the any_cast of the switch) succeeds and yields the variant and the
\* payload that were passed to AddEvent: the cast's class is the value's
\* class, no pass ends on bad_any_cast, the value is one of the values
\* handed to AddEvent, and the event in delivery is the front entry's value.
C15_TagMatchesStoredValue ==
    /\ \A k \in 1..Len(sEventBus) :
          LET entry == sEventBus[k] IN
          /\ entry.tag = GetType(entry.value)
          /\ SwitchHandles(entry.tag) => SwitchCast(entry.tag) = entry.value.class
          /\ entry.value.id \in 1..nextId
          /\ \E e \in EventInputs \cup { ProducedEvent } :
                /\ entry.value.class = e.class
                /\ entry.value.payload = e.payload
    /\ fault # "bad_any_cast"
    /\ (pc = "iter" /\ cur.id # 0)
          => (sEventBus # << >> /\ cur = Head(sEventBus).value)

\* C15 witness: a KeyPress entry and a MouseButtonClick entry are queued
\* with their own tags, and the switch has recovered the KeyPress value
\* with key 97 from the front entry
C15_Witness ==
    /\ pc = "iter"
    /\ Len(sEventBus) >= 2
    /\ sEventBus[1].tag = Type_KeyPress
    /\ sEventBus[2].tag = Type_MouseButtonClick
    /\ cur = sEventBus[1].value
    /\ cur.class = "KeyPressEvent"
    /\ cur.payload = << 97, FALSE, FALSE, FALSE >>

\* C16: the bus is FIFO across passes and re-entrancy: whenever the
\* events were enqueued (before the pass, between passes, by a listener
\* during a pass), each listener is handed them in the order they were
\* enqueued, and no event is delivered before one enqueued earlier.  The
\* entries wait in enqueue order; an enqueued event handed to a listener
\* was enqueued after every event handed to that listener before; and
\* nothing still waiting was enqueued before an event already delivered.
\* Stated of the newest invocation in the log, which only grows.
C16_DeliveryInEnqueueOrder ==
    LET n == Len(log) IN
    /\ \A k \in 1..(Len(sEventBus) - 1) :
          sEventBus[k].value.id < sEventBus[k + 1].value.id
    /\ (n > 0 /\ log[n].e.id # 0) =>
          /\ \A p \in 1..(n - 1) :
                log[p].l = log[n].l => log[p].e.id < log[n].e.id
          /\ \A k \in 1..Len(sEventBus) :
                sEventBus[k].value.id >= log[n].e.id

\* C16 witness: in a second pass a listener that enqueues events is handed
\* the event it enqueued itself during an earlier delivery, after the
\* events of the host that were enqueued before it
C16_Witness ==
    /\ passLog > 0
    /\ Len(log) > passLog
    /\ sEventListeners # << >>
    /\ sEventListeners[1].kind = "producer"
    /\ log[1].e.id = 1
    /\ log[1].l = 1
    /\ log[Len(log)].l = 1
    /\ log[Len(log)].e.id > 1
    /\ log[Len(log)].e.payload = ProducedEvent.payload
    /\ \A p \in 1..Len(log) : log[p].e.id # 0

\* the entries a pass started with all carry a tag the switch handles
PassTagsKnown == \A k \in 1..Len(passBus) : SwitchHandles(passBus[k].tag)

\* no registered listener registers listeners
NoAdder == \A k \in 1..Len(sEventListeners) : sEventListeners[k].kind # "adder"

\* under FairSpec: the loop of Dispatch is finite: a pass that has started
\* leaves the loop, by returning or by ending the process
PassEnds == (pc \in { "test", "iter" }) ~> (pc \in { "idle", "crashed", "trapped" })

\* C17: every Dispatch pass, once started, runs to completion: for every
\* initial bus size it returns after finitely many iterations, given
\* listeners that return and enqueue boundedly many events.  A pass that
\* ends the process by an uncaught exception or a fault never returns, so
\* the claim requires that no pass over entries with known tags, with
\* listeners that do not register listeners, ends that way.
C17_PassRunsToCompletion ==
    (lastCall = "Dispatch" /\ PassTagsKnown /\ NoAdder) => pc # "crashed"

\* C18: at-most-once delivery: over any sequence of AddEvent,
\* AddEventListener and Dispatch calls no enqueued event is handed to the
\* same listener more than once, and no listener is invoked with an event
\* that was never enqueued.  Stated of the newest invocation in the log,
\* which only grows.
C18_AtMostOnceDelivery ==
    LET n == Len(log) IN
    n > 0 =>
       /\ log[n].e.id \in 1..nextId
       /\ \A p \in 1..(n - 1) :
             ~(log[p].l = log[n].l /\ log[p].e.id = log[n].e.id)

\* C19: no event is lost: with Dispatch called again and again, every
\* enqueued event is eventually handed to the listeners registered before
\* its delivery pass, and the bus is eventually empty.  Once the process
\* has ended on a fault nothing more is delivered and nothing leaves the
\* bus, so the claim requires that an entry still queued at that moment
\* has already been handed to a listener.  Stated for runs in which every
\* delivered value was an enqueued one, so that a violation is a run that
\* is defined up to the fault.
C19_NoEventLost ==
    (pc = "crashed" /\ \A p \in 1..Len(log) : log[p].e.id # 0)
        => \A k \in 1..Len(sEventBus) :
              \E p \in 1..Len(log) : log[p].e.id = sEventBus[k].value.id

====
